---- MODULE Spec2Model ----
\* A model of the task lifecycle of the video/music pipeline server:
\* the in-memory task table of server.py, its HTTP handlers, and the
\* background units the handlers schedule.  Handlers are `async def` bodies
\* run on one event loop, so a handler without an `await` is one atomic step,
\* and a background unit is split into steps at its network `await`.
EXTENDS Integers, Sequences, FiniteSets, TLC

VARIABLES tasks, units, r2, tmp, uuid, http, mix, gemini

\* tasks .. http are the server's state.  mix and gemini hold one call of
\* mix_audio_video and one call of analyze_with_gemini, for the
\* specifications that run these adapters step by step (SpecMix,
\* SpecGemini); the server's specifications leave both idle.
adapters == <<mix, gemini>>

vars == <<tasks, units, r2, tmp, uuid, http, mix, gemini>>

\* ------------------------------------------------------------------ bounds

\* Number of uuid4() values the run may draw.
MaxUuid == 4

\* Number of HTTP requests the run may serve.
MaxRequests == 3

\* Number of direct runs of process_auto_mixing (SpecAuto only).
MaxAuto == 1

\* Longest video, in seconds, given to mix_audio_video (SpecMix only).
MaxSeconds == 30

\* Number of times _analyze_with_file_api polls the remote file's state
\* (SpecGemini only).
MaxPolls == 2

\* ------------------------------------------------------- program constants

MAX_FILE_SIZE == 100 * 1024 * 1024

\* Python's None, also standing for a key that is absent from a task dict.
None == "None"

\* tasks[task_id] has no "music_list" key until receive_music stores one;
\* receive_music never stores an empty list, so the empty sequence is free
\* to stand for the absent key.
NoList == << >>

\* ------------------------------------------------------------------ inputs

Sizes == {1, MAX_FILE_SIZE, MAX_FILE_SIZE + 1}

Filenames == {[stem |-> "a", suffix |-> ".mp4"]}

MusicItem(n) == [title |-> "song" \o ToString(n),
                 url |-> "http://music/" \o ToString(n) \o ".mp3",
                 image |-> "http://img/" \o ToString(n) \o ".png"]

MusicLists == { << >>, <<MusicItem(1)>>, <<MusicItem(1), MusicItem(2)>> }

MusicUrls == {"http://music/1.mp3"}

MissingObject == "missing.mp4"

Outcomes == {"ok", "fail"}

\* What the content analysis service can answer.
GeminiReplies == {"json_object", "json_array", "not_json", "raises"}

\* An id uuid4 never returns in the run.
UnknownId == MaxUuid + 1

\* ----------------------------------------------------------------- helpers

Name(f) == f.stem \o f.suffix

\* f"{uuid.uuid4()}_{file.filename}"
UuidName(u, f) == ToString(u) \o "_" \o Name(f)

TmpJoin(name) == "/tmp/" \o name

NoRequest == [video_object_name |-> None, music_url |-> None]

NoBody == [status |-> None, video_object_name |-> None, music_url |-> None,
           final_video_url |-> None, music_list |-> NoList, error |-> None]

NewTask(status, von, murl) ==
    [status |-> status, video_object_name |-> von, music_url |-> murl,
     final_video_url |-> None, music_list |-> NoList, error |-> None]

Response(op, t, size, ml, code, body) ==
    [seq |-> http.seq + 1, op |-> op, task_id |-> t, size |-> size,
     music_list |-> ml, code |-> code, body |-> body]

\* `except Exception as e: ... raise HTTPException(status_code=500, ...)`:
\* every exception raised inside the try block, an HTTPException included,
\* leaves the handler as a 500.
ExceptionClasses == {"HTTPException", "ClientError", "OSError"}
ExceptException(e) ==
    IF e.cls \in ExceptionClasses
    THEN [cls |-> "HTTPException", status_code |-> 500]
    ELSE e

\* ------------------------------------------------------------------- state

Idle == [pc |-> "idle"]

\* The server after start-up: an empty task table.
ServerInit ==
    /\ tasks = << >>
    /\ units = << >>
    /\ r2 = {}
    /\ tmp = {}
    /\ uuid = 0
    /\ http = [seq |-> 0, op |-> None, task_id |-> 0, size |-> 0,
               music_list |-> NoList, code |-> 0, body |-> NoBody]

Init == ServerInit /\ mix = Idle /\ gemini = Idle

NoFile == [stem |-> None, suffix |-> None]

AnalysisLog == [downsample |-> None, transcribe |-> None, optimize |-> None,
                analyze |-> None, webhook |-> None]

MixingLog == [download |-> None, get |-> None, mix |-> None,
              upload |-> None, sign |-> None]

\* One background unit: the task it was started for, the coroutine it runs,
\* where it stands (scheduled, suspended at its await, done), how it ended,
\* its arguments, and what each external call it made returned.
Unit(t, kind, file, req, log) ==
    [task |-> t, kind |-> kind, pc |-> "scheduled", exit |-> None,
     transcript |-> None, file |-> file, request |-> req, log |-> log]

\* -------------------------------------------------------- storage adapter

\* upload_to_r2 with its `raise` lost: the key comes back whatever happened.
upload_to_r2_swallows(object_name, outcome) == object_name

\* upload_to_r2 returns the object name or re-raises.
upload_to_r2(object_name, outcome) ==
    IF outcome = "ok" THEN object_name ELSE None

\* download_from_r2 succeeds only for an object the bucket holds.
download_from_r2(object_name, outcome) ==
    outcome = "ok" /\ object_name \in r2

\* generate_presigned_url (the second definition is the one in force):
\* any exception of the client is printed and None is returned.
generate_presigned_url(object_name, outcome) ==
    IF outcome = "ok" THEN "https://r2/" \o object_name \o "?X-Amz-Signature"
    ELSE None

\* ------------------------------------------------------------ HTTP handlers

analyze_video(size, f, up) ==
    /\ http.seq < MaxRequests
    /\ uuid + 3 <= MaxUuid
    /\ LET temp_path == TmpJoin(UuidName(uuid + 1, f))
           temp_file == [stem |-> ToString(uuid + 1) \o "_" \o f.stem,
                         suffix |-> f.suffix]
           too_large == [cls |-> "HTTPException", status_code |-> 413]
           object_name == UuidName(uuid + 2, f)
           stored == upload_to_r2(object_name, up)
           task_id == uuid + 3
       IN IF size > MAX_FILE_SIZE
          THEN \* os.remove(temp_path); raise 413, caught by the except clause
               /\ http' = Response("analyze_video", 0, size, NoList,
                                   ExceptException(too_large).status_code, NoBody)
               /\ uuid' = uuid + 1
               /\ UNCHANGED <<tasks, units, r2, tmp>>
          ELSE IF stored = None
          THEN \* upload_to_r2 raised: temp file removed, 500
               /\ http' = Response("analyze_video", 0, size, NoList,
                    ExceptException([cls |-> "ClientError", status_code |-> 0]).status_code,
                    NoBody)
               /\ uuid' = uuid + 2
               /\ UNCHANGED <<tasks, units, r2, tmp>>
          ELSE /\ r2' = IF up = "ok" THEN r2 \cup {object_name} ELSE r2
               /\ tasks' = tasks @@ (task_id :> NewTask("processing", stored, None))
               /\ units' = Append(units, Unit(task_id, "analysis", temp_file,
                                              NoRequest, AnalysisLog))
               /\ tmp' = tmp \cup {temp_path}
               /\ uuid' = uuid + 3
               /\ http' = Response("analyze_video", task_id, size, NoList, 200,
                                   NewTask("processing", None, None))

\* receive_music doing what its docstring says: "Triggers auto-mixing".
receive_music_triggers_mixing(task_id, music_list) ==
    /\ http.seq < MaxRequests
    /\ IF task_id \notin DOMAIN tasks
       THEN /\ http' = Response("receive_music", task_id, 0, music_list, 404, NoBody)
            /\ UNCHANGED <<tasks, units>>
       ELSE IF music_list = << >>
       THEN /\ http' = Response("receive_music", task_id, 0, music_list, 400, NoBody)
            /\ UNCHANGED <<tasks, units>>
       ELSE /\ tasks' = [tasks EXCEPT ![task_id].status = "music_ready",
                                      ![task_id].music_list = music_list,
                                      ![task_id].music_url = music_list[1].url]
            /\ units' = Append(units, Unit(task_id, "auto_mixing", NoFile,
                                           NoRequest, MixingLog))
            /\ http' = Response("receive_music", task_id, 0, music_list, 200, NoBody)
    /\ UNCHANGED <<r2, tmp, uuid>>

\* receive_music with its two checks in the other order.
receive_music_checks_list_first(task_id, music_list) ==
    /\ http.seq < MaxRequests
    /\ IF music_list = << >>
       THEN /\ http' = Response("receive_music", task_id, 0, music_list, 400, NoBody)
            /\ UNCHANGED tasks
       ELSE IF task_id \notin DOMAIN tasks
       THEN /\ http' = Response("receive_music", task_id, 0, music_list, 404, NoBody)
            /\ UNCHANGED tasks
       ELSE /\ tasks' = [tasks EXCEPT ![task_id].status = "music_ready",
                                      ![task_id].music_list = music_list]
            /\ http' = Response("receive_music", task_id, 0, music_list, 200, NoBody)
    /\ UNCHANGED <<units, r2, tmp, uuid>>

\* receive_music without the empty-list check.
receive_music_accepts_empty(task_id, music_list) ==
    /\ http.seq < MaxRequests
    /\ IF task_id \notin DOMAIN tasks
       THEN /\ http' = Response("receive_music", task_id, 0, music_list, 404, NoBody)
            /\ UNCHANGED tasks
       ELSE /\ tasks' = [tasks EXCEPT ![task_id].status = "music_ready",
                                      ![task_id].music_list = music_list]
            /\ http' = Response("receive_music", task_id, 0, music_list, 200, NoBody)
    /\ UNCHANGED <<units, r2, tmp, uuid>>

receive_music(task_id, music_list) ==
    /\ http.seq < MaxRequests
    /\ IF task_id \notin DOMAIN tasks
       THEN /\ http' = Response("receive_music", task_id, 0, music_list, 404, NoBody)
            /\ UNCHANGED tasks
       ELSE IF music_list = << >>
       THEN /\ http' = Response("receive_music", task_id, 0, music_list, 400, NoBody)
            /\ UNCHANGED tasks
       ELSE /\ tasks' = [tasks EXCEPT ![task_id].status = "music_ready",
                                      ![task_id].music_list = music_list]
            /\ http' = Response("receive_music", task_id, 0, music_list, 200, NoBody)
    /\ UNCHANGED <<units, r2, tmp, uuid>>

get_task_status(task_id) ==
    /\ http.seq < MaxRequests
    /\ IF task_id \notin DOMAIN tasks
       THEN http' = Response("get_task_status", task_id, 0, NoList, 404, NoBody)
       ELSE http' = Response("get_task_status", task_id, 0, NoList, 200, tasks[task_id])
    /\ UNCHANGED <<tasks, units, r2, tmp, uuid>>

\* finalize_video continuing the task that already holds the video, where
\* there is one, instead of creating a task.
finalize_video_on_stored_task(request) ==
    /\ http.seq < MaxRequests
    /\ uuid + 1 <= MaxUuid
    /\ LET holders == {t \in DOMAIN tasks :
                          tasks[t].video_object_name = request.video_object_name}
           task_id == IF holders = {} THEN uuid + 1 ELSE CHOOSE t \in holders : TRUE
       IN /\ tasks' = IF holders = {}
                      THEN tasks @@ (task_id :> NewTask("mixing", request.video_object_name,
                                                        request.music_url))
                      ELSE [tasks EXCEPT ![task_id].status = "mixing",
                                         ![task_id].music_url = request.music_url]
          /\ units' = Append(units, Unit(task_id, "finalization", NoFile, request,
                                         MixingLog))
          /\ uuid' = uuid + 1
          /\ http' = Response("finalize_video", task_id, 0, NoList, 200, NoBody)
    /\ UNCHANGED <<r2, tmp>>

finalize_video(request) ==
    /\ http.seq < MaxRequests
    /\ uuid + 1 <= MaxUuid
    /\ LET task_id == uuid + 1
       IN /\ tasks' = tasks @@ (task_id :> NewTask("mixing", request.video_object_name,
                                                   request.music_url))
          /\ units' = Append(units, Unit(task_id, "finalization", NoFile, request,
                                         MixingLog))
          /\ uuid' = uuid + 1
          /\ http' = Response("finalize_video", task_id, 0, NoList, 200, NoBody)
    /\ UNCHANGED <<r2, tmp>>

\* Ids a client may name: the ids issued so far and an id never issued.
RequestIds == DOMAIN tasks \cup {UnknownId}

FinalizeRequests ==
    {[video_object_name |-> v, music_url |-> m] :
        v \in r2 \cup {MissingObject}, m \in MusicUrls}

\* --------------------------------------------------------- other adapters

\* transcribe_audio without the `return ""` of its except clause.
transcribe_audio_returns_none(outcome) ==
    IF outcome = "ok" THEN "text" ELSE None

\* transcribe_audio: the transcript, or "" when the engine raises.
transcribe_audio(outcome) ==
    IF outcome = "ok" THEN "text" ELSE ""

\* analyze_with_gemini: json.loads of the reply, or {"error": str(e)} when
\* the call or the parse raises; nothing propagates to the caller.
analyze_with_gemini(reply) ==
    CASE reply = "json_object" -> "brief"
      [] reply = "json_array" -> "array"
      [] OTHER -> "error_dict"

\* process_video never raises: get_video_info and optimize_video catch
\* everything, and `'suno_request' in gemini_result` works on a list too.
process_video(reply) == [gemini_analysis |-> analyze_with_gemini(reply)]

\* gemini_data.get('suno_request') needs a dict.
HasGet(gemini_data) == gemini_data \in {"brief", "error_dict"}

\* mix_audio_video(video_path, audio_path, output_path, start_time=0.0,
\* audio_volume=0.7): Python binds a call or raises TypeError.
MixParams == <<"video_path", "audio_path", "output_path", "start_time", "audio_volume">>
MixRequired == 3

CallBinds(call) ==
    /\ call.npos <= Len(MixParams)
    /\ \A k \in call.kw : \E j \in (call.npos + 1)..Len(MixParams) : MixParams[j] = k
    /\ \A j \in 1..MixRequired : j <= call.npos \/ MixParams[j] \in call.kw

\* mix_audio_video(video_path, music_path, output_path, request.start_time,
\*                 request.audio_volume)
FinalizationMixCall == [npos |-> 5, kw |-> {}]

\* mix_audio_video(video_path, music_path, output_path, video_duration=10,
\*                 audio_volume=0.3)
AutoMixingMixCall == [npos |-> 3, kw |-> {"video_duration", "audio_volume"}]

mix_audio_video(call, ffmpeg) ==
    IF ~CallBinds(call) THEN "TypeError"
    ELSE IF ffmpeg = "ok" THEN "ok" ELSE "ffmpeg.Error"

\* ---------------------------------------------------------- background units

\* The except clause recording the error and leaving the status alone.
SetFailed_keeps_status(t, e) ==
    [tasks EXCEPT ![t].error = e]

\* The except clause marking every task of the table failed.
SetFailed_all(t, e) ==
    [x \in DOMAIN tasks |-> [tasks[x] EXCEPT !.status = "failed", !.error = e]]

SetFailed(t, e) ==
    [tasks EXCEPT ![t].status = "failed", ![t].error = e]

FilePath(u) == TmpJoin(u.file.stem \o u.file.suffix)
DownsampledPath(u) == TmpJoin("downsampled_" \o u.file.stem \o u.file.suffix)
\* optimize_video: f"/tmp/{Path(input_path).stem}_opt.mp4"
OptimizedPath(u) == TmpJoin("downsampled_" \o u.file.stem \o "_opt.mp4")

\* process_and_send_to_n8n up to `await client.post`: downsample, transcribe,
\* analyze, build the payload.
AnalysisStart(i, ds, tr, opt, reply) ==
    /\ i \in DOMAIN units
    /\ units[i].kind = "analysis" /\ units[i].pc = "scheduled"
    /\ LET u == units[i]
           t == u.task
           transcript == transcribe_audio(tr)
           gemini_data == process_video(reply).gemini_analysis
           cleaned == {FilePath(u), DownsampledPath(u)}
       IN IF ds = "fail"
          THEN /\ tasks' = SetFailed(t, "ffmpeg.Error")
               /\ tmp' = tmp \ cleaned
               /\ units' = [units EXCEPT ![i].pc = "done", ![i].exit = "ffmpeg.Error",
                                         ![i].log.downsample = ds]
          ELSE IF ~HasGet(gemini_data)
          THEN /\ tasks' = SetFailed(t, "AttributeError")
               /\ tmp' = (tmp \cup (IF opt = "ok" THEN {OptimizedPath(u)} ELSE {}))
                           \ cleaned
               /\ units' = [units EXCEPT ![i].pc = "done", ![i].exit = "AttributeError",
                                         ![i].transcript = transcript,
                                         ![i].log.downsample = ds,
                                         ![i].log.transcribe = tr,
                                         ![i].log.optimize = opt,
                                         ![i].log.analyze = reply]
          ELSE /\ tasks' = tasks
               /\ tmp' = tmp \cup {DownsampledPath(u)}
                             \cup (IF opt = "ok" THEN {OptimizedPath(u)} ELSE {})
               /\ units' = [units EXCEPT ![i].pc = "awaiting_post",
                                         ![i].transcript = transcript,
                                         ![i].log.downsample = ds,
                                         ![i].log.transcribe = tr,
                                         ![i].log.optimize = opt,
                                         ![i].log.analyze = reply]
    /\ UNCHANGED <<r2, uuid, http>>

\* process_and_send_to_n8n from the webhook's answer to the end of `finally`.
AnalysisPosted(i, hook) ==
    /\ i \in DOMAIN units
    /\ units[i].kind = "analysis" /\ units[i].pc = "awaiting_post"
    /\ LET u == units[i]
           e == IF hook = "ok" THEN "ok" ELSE "HTTPError"
       IN /\ tasks' = IF hook = "ok" THEN tasks ELSE SetFailed(u.task, e)
          /\ tmp' = tmp \ {FilePath(u), DownsampledPath(u)}
          /\ units' = [units EXCEPT ![i].pc = "done", ![i].exit = e,
                                    ![i].log.webhook = hook]
    /\ UNCHANGED <<r2, uuid, http>>

VideoPath(t) == TmpJoin("temp_video_" \o ToString(t) \o ".mp4")
MusicPath(t) == TmpJoin("temp_music_" \o ToString(t) \o ".mp3")
OutputFilename(t) == "final_" \o ToString(t) \o ".mp4"
OutputPath(t) == TmpJoin(OutputFilename(t))
FinalObjectName(t) == "final/" \o OutputFilename(t)
MixTemps(t) == {VideoPath(t), MusicPath(t), OutputPath(t)}

\* process_finalization up to `await client.get`: the video download.
FinalizationStart(i, dl) ==
    /\ i \in DOMAIN units
    /\ units[i].kind = "finalization" /\ units[i].pc = "scheduled"
    /\ LET u == units[i]
           t == u.task
       IN IF download_from_r2(u.request.video_object_name, dl)
          THEN /\ tasks' = tasks
               /\ tmp' = tmp \cup {VideoPath(t)}
               /\ units' = [units EXCEPT ![i].pc = "awaiting_get",
                                         ![i].log.download = "ok"]
          ELSE /\ tasks' = IF t \in DOMAIN tasks THEN SetFailed(t, "ClientError")
                           ELSE tasks
               /\ tmp' = tmp \ MixTemps(t)
               /\ units' = [units EXCEPT ![i].pc = "done", ![i].exit = "ClientError",
                                         ![i].log.download = "fail"]
    /\ UNCHANGED <<r2, uuid, http>>

\* process_finalization from the music download's answer on: mix, upload,
\* presign, update the task, clean up.
FinalizationFetched(i, get, ffmpeg, up, sign) ==
    /\ i \in DOMAIN units
    /\ units[i].kind = "finalization" /\ units[i].pc = "awaiting_get"
    /\ LET u == units[i]
           t == u.task
           mixed == mix_audio_video(FinalizationMixCall, ffmpeg)
           final_url == generate_presigned_url(FinalObjectName(t), sign)
           e == IF get = "fail" THEN "HTTPError"
                ELSE IF mixed # "ok" THEN mixed
                ELSE IF upload_to_r2(FinalObjectName(t), up) = None THEN "ClientError"
                ELSE "ok"
       IN /\ tasks' = IF t \notin DOMAIN tasks THEN tasks
                      ELSE IF e = "ok"
                      THEN [tasks EXCEPT ![t].status = "completed",
                                         ![t].final_video_url = final_url]
                      ELSE SetFailed(t, e)
          /\ r2' = IF get = "ok" /\ mixed = "ok" /\ up = "ok"
                   THEN r2 \cup {FinalObjectName(t)} ELSE r2
          /\ tmp' = tmp \ MixTemps(t)
          /\ units' = [units EXCEPT
                ![i].pc = "done", ![i].exit = e,
                ![i].log.get = get,
                ![i].log.mix = IF get = "ok" THEN mixed ELSE None,
                ![i].log.upload = IF get = "ok" /\ mixed = "ok" THEN up ELSE None,
                ![i].log.sign = IF e = "ok" THEN sign ELSE None]
    /\ UNCHANGED <<uuid, http>>

\* A caller running process_auto_mixing(task_id) for a task of the table,
\* up to `await client.get`: read the task, download the video.  Nothing in
\* server.py schedules it, so only SpecAuto takes this step.
AutoMixingStart(t, dl) ==
    /\ t \in DOMAIN tasks
    /\ Cardinality({i \in DOMAIN units : units[i].kind = "auto_mixing"}) < MaxAuto
    /\ LET task == tasks[t]
           request == [video_object_name |-> task.video_object_name,
                       music_url |-> task.music_url]
           u == Unit(t, "auto_mixing", NoFile, request, MixingLog)
       IN IF download_from_r2(request.video_object_name, dl)
          THEN /\ tasks' = tasks
               /\ tmp' = tmp \cup {VideoPath(t)}
               /\ units' = Append(units, [u EXCEPT !.pc = "awaiting_get",
                                                   !.log.download = "ok"])
          ELSE /\ tasks' = SetFailed(t, "ClientError")
               /\ tmp' = tmp \ MixTemps(t)
               /\ units' = Append(units, [u EXCEPT !.pc = "done",
                                                   !.exit = "ClientError",
                                                   !.log.download = "fail"])
    /\ UNCHANGED <<r2, uuid, http>>

\* process_auto_mixing from the music download's answer on.  client.get(None)
\* raises; the upload and the task update are reached only if the mix call
\* returns.
AutoMixingFetched(i, get, ffmpeg, up) ==
    /\ i \in DOMAIN units
    /\ units[i].kind = "auto_mixing" /\ units[i].pc = "awaiting_get"
    /\ LET u == units[i]
           t == u.task
           fetched == IF u.request.music_url = None THEN "fail" ELSE get
           mixed == mix_audio_video(AutoMixingMixCall, ffmpeg)
           e == IF fetched = "fail" THEN "HTTPError"
                ELSE IF mixed # "ok" THEN mixed
                ELSE IF upload_to_r2(FinalObjectName(t), up) = None THEN "ClientError"
                ELSE "ok"
       IN /\ tasks' = IF e = "ok"
                      THEN [tasks EXCEPT ![t].status = "completed",
                                         ![t].final_video_url = FinalObjectName(t)]
                      ELSE SetFailed(t, e)
          /\ r2' = IF fetched = "ok" /\ mixed = "ok" /\ up = "ok"
                   THEN r2 \cup {FinalObjectName(t)} ELSE r2
          /\ tmp' = tmp \ MixTemps(t)
          /\ units' = [units EXCEPT
                ![i].pc = "done", ![i].exit = e,
                ![i].log.get = fetched,
                ![i].log.mix = IF fetched = "ok" THEN mixed ELSE None,
                ![i].log.upload = IF fetched = "ok" /\ mixed = "ok" THEN up ELSE None]
    /\ UNCHANGED <<uuid, http>>

\* ------------------------------------------- mix_audio_video, step by step

\* Times are in milliseconds.  The inputs are multiples of half a second,
\* which Python's floats hold exactly, as they do their differences with 5.0
\* and their products with 1000.
HalfSecond == 500
Millis(seconds) == 2 * HalfSecond * seconds

\* The length of the fade-out: `video_duration - 5.0` and `duration=5`.
FadeOutSeconds == 5

\* float(video_info['duration']) of the probed video stream.
Durations == {HalfSecond * h : h \in 0..(2 * MaxSeconds)}

\* start_time of the call.
StartTimes == {0, 3 * HalfSecond, Millis(2)}

\* What ffmpeg.probe finds: a video stream with a duration, no video stream
\* (next() raises StopIteration), or nothing (ffmpeg.Error).
Probes == {"video", "no_video_stream", "error"}

\* A call of mix_audio_video on a video of the given duration.
MixCalled(duration, probe, has_audio, start_time) ==
    [pc |-> "called", duration |-> duration, probe |-> probe,
     has_audio |-> has_audio, start_time |-> start_time,
     video_duration |-> None, fade_out_start |-> None, delay_ms |-> None,
     fade_in_start |-> None, audio |-> None, trim |-> None]

MixCalls ==
    {MixCalled(d, p, a, st) : d \in Durations, p \in Probes,
                              a \in BOOLEAN, st \in StartTimes}

\* The computation without the clamp at zero.
fade_out_start_unclamped(video_duration) ==
    video_duration - Millis(FadeOutSeconds)

\* fade_out_start = video_duration - 5.0; if fade_out_start < 0:
\* fade_out_start = 0.0
fade_out_start(video_duration) ==
    LET start == video_duration - Millis(FadeOutSeconds)
    IN  IF start < 0 THEN 0 ELSE start

\* Step 0: probe the video and compute the start of the fade-out.
MixProbe ==
    /\ mix.pc = "called"
    /\ mix' = IF mix.probe = "video"
              THEN [mix EXCEPT !.pc = "probed",
                               !.video_duration = mix.duration,
                               !.fade_out_start = fade_out_start(mix.duration)]
              ELSE [mix EXCEPT !.pc = "raised"]

\* Steps 1 to 4: the music's filter chain and the mix with the original
\* audio (amix), or the music alone trimmed to the video's length (atrim).
MixFilters ==
    /\ mix.pc = "probed"
    /\ mix' = [mix EXCEPT
                 !.pc = "built",
                 !.delay_ms = IF mix.start_time > 0 THEN mix.start_time ELSE None,
                 !.fade_in_start = mix.start_time,
                 !.audio = IF mix.has_audio THEN "amix" ELSE "atrim",
                 !.trim = IF mix.has_audio THEN None ELSE mix.video_duration]

\* Step 5: stream.run; ffmpeg.Error is re-raised.
MixRun(ffmpeg) ==
    /\ mix.pc = "built"
    /\ mix' = [mix EXCEPT !.pc = IF ffmpeg = "ok" THEN "returned" ELSE "raised"]

\* ---------------------------------------- analyze_with_gemini, step by step

\* `if file_size_mb < 20`, in bytes.
InlineLimit == 20 * 1024 * 1024

\* os.path.getsize(video_path).
FileSizes == {InlineLimit - 1, InlineLimit, InlineLimit + 1, 2 * InlineLimit}

\* video_file.state.name.
FileStates == {"PROCESSING", "ACTIVE", "FAILED"}

\* The file genai.upload_file creates on the remote service.
RemoteFile == "files/1"

GeminiCalled(size) ==
    [pc |-> "called", size |-> size, remote |-> {}, uploaded |-> FALSE,
     state |-> None, polls |-> 0, reply |-> None, exit |-> None,
     result |-> None]

\* The except clause of analyze_with_gemini: return {"error": str(e)}.
GeminiCaught(g, exit) ==
    [g EXCEPT !.pc = "returned", !.exit = exit, !.result = "error_dict"]

\* `if file_size_mb < 20`: inline, else the file API.
GeminiDispatch ==
    /\ gemini.pc = "called"
    /\ gemini' = [gemini EXCEPT
                    !.pc = IF gemini.size < InlineLimit THEN "inline"
                                                        ELSE "uploading"]

\* _analyze_inline: generate_content on the file's bytes.
GeminiInline(reply) ==
    /\ gemini.pc = "inline"
    /\ gemini' = IF reply = "raises"
                 THEN GeminiCaught([gemini EXCEPT !.reply = reply], "generate_raised")
                 ELSE [gemini EXCEPT !.pc = "parsing", !.reply = reply]

\* genai.upload_file: the remote file exists from here on.
GeminiUpload(up, state) ==
    /\ gemini.pc = "uploading"
    /\ gemini' = IF up = "fail"
                 THEN GeminiCaught(gemini, "upload_raised")
                 ELSE [gemini EXCEPT !.pc = "polling", !.remote = {RemoteFile},
                                     !.uploaded = TRUE, !.state = state]

\* One turn of `while video_file.state.name == "PROCESSING"`: sleep, then
\* genai.get_file.  The last poll of the run finds the file out of
\* PROCESSING.
GeminiPoll(get, state) ==
    /\ gemini.pc = "polling"
    /\ gemini.state = "PROCESSING"
    /\ gemini.polls < MaxPolls
    /\ gemini.polls + 1 = MaxPolls => state # "PROCESSING"
    /\ gemini' = IF get = "fail"
                 THEN GeminiCaught([gemini EXCEPT !.polls = @ + 1], "get_raised")
                 ELSE [gemini EXCEPT !.polls = @ + 1, !.state = state]

\* `if video_file.state.name == "FAILED": raise ValueError`, before the
\* try/finally that deletes the remote file.
GeminiReady ==
    /\ gemini.pc = "polling"
    /\ gemini.state # "PROCESSING"
    /\ gemini' = IF gemini.state = "FAILED"
                 THEN GeminiCaught(gemini, "state_failed")
                 ELSE [gemini EXCEPT !.pc = "generating"]

\* try: generate_content; finally: genai.delete_file.  An exception of
\* delete_file replaces the outcome of the try block.
GeminiGenerate(reply, del) ==
    /\ gemini.pc = "generating"
    /\ LET g == [gemini EXCEPT !.reply = reply,
                               !.remote = IF del = "ok" THEN {} ELSE @]
       IN gemini' = IF del = "fail" THEN GeminiCaught(g, "delete_raised")
                    ELSE IF reply = "raises" THEN GeminiCaught(g, "generate_raised")
                    ELSE [g EXCEPT !.pc = "parsing"]

\* json.loads of the reply's text.
GeminiParse ==
    /\ gemini.pc = "parsing"
    /\ gemini' = [gemini EXCEPT
                    !.pc = "returned",
                    !.exit = IF gemini.reply = "not_json" THEN "parse_raised" ELSE "ok",
                    !.result = analyze_with_gemini(gemini.reply)]

\* ------------------------------------------------------------ specification

Requests ==
    \/ /\ \E size \in Sizes, f \in Filenames, up \in Outcomes :
             analyze_video(size, f, up)
       /\ UNCHANGED adapters
    \/ /\ \E t \in RequestIds, ml \in MusicLists : receive_music(t, ml)
       /\ UNCHANGED adapters
    \/ /\ \E t \in RequestIds : get_task_status(t)
       /\ UNCHANGED adapters
    \/ /\ \E r \in FinalizeRequests : finalize_video(r)
       /\ UNCHANGED adapters

Background ==
    \/ /\ \E i \in DOMAIN units, ds \in Outcomes, tr \in Outcomes, opt \in Outcomes,
             reply \in GeminiReplies : AnalysisStart(i, ds, tr, opt, reply)
       /\ UNCHANGED adapters
    \/ /\ \E i \in DOMAIN units, hook \in Outcomes : AnalysisPosted(i, hook)
       /\ UNCHANGED adapters
    \/ /\ \E i \in DOMAIN units, dl \in Outcomes : FinalizationStart(i, dl)
       /\ UNCHANGED adapters
    \/ /\ \E i \in DOMAIN units, get \in Outcomes, ffmpeg \in Outcomes,
             up \in Outcomes, sign \in Outcomes :
             FinalizationFetched(i, get, ffmpeg, up, sign)
       /\ UNCHANGED adapters

Next == Requests \/ Background

Spec == Init /\ [][Next]_vars

\* The program with process_auto_mixing wired in.
AutoMixing ==
    \/ /\ \E t \in DOMAIN tasks, dl \in Outcomes : AutoMixingStart(t, dl)
       /\ UNCHANGED adapters
    \/ /\ \E i \in DOMAIN units, get \in Outcomes, ffmpeg \in Outcomes,
             up \in Outcomes : AutoMixingFetched(i, get, ffmpeg, up)
       /\ UNCHANGED adapters

NextAuto == Next \/ AutoMixing

SpecAuto == Init /\ [][NextAuto]_vars

\* Background unit i, scheduled or resumed, runs its next step: the step of
\* Background that belongs to the unit's kind and position.
Runs(i) ==
    /\ units[i].pc # "done"
    /\ \/ /\ units[i].kind = "analysis" /\ units[i].pc = "scheduled"
          /\ \E ds, tr, opt \in Outcomes, reply \in GeminiReplies :
                AnalysisStart(i, ds, tr, opt, reply)
       \/ /\ units[i].kind = "analysis" /\ units[i].pc = "awaiting_post"
          /\ \E hook \in Outcomes : AnalysisPosted(i, hook)
       \/ /\ units[i].kind = "finalization" /\ units[i].pc = "scheduled"
          /\ \E dl \in Outcomes : FinalizationStart(i, dl)
       \/ /\ units[i].kind = "finalization" /\ units[i].pc = "awaiting_get"
          /\ \E get, ffmpeg, up, sign \in Outcomes :
                FinalizationFetched(i, get, ffmpeg, up, sign)
    /\ UNCHANGED adapters

\* The event loop runs every scheduled or resumed background unit, given
\* that the external call it waits for returns: while some unit has a step
\* to take, a unit takes a step, which serves no request.  A unit has at
\* most two steps, so no unit waits for ever.
Fairness == WF_vars(UNCHANGED http /\ \E i \in DOMAIN units : Runs(i))

SpecFair == Spec /\ Fairness

\* One call of mix_audio_video, on every video and start time of the inputs;
\* the server is at rest.
server == <<tasks, units, r2, tmp, uuid, http>>

InitMix == ServerInit /\ gemini = Idle /\ mix \in MixCalls

NextMix ==
    \/ MixProbe /\ UNCHANGED <<server, gemini>>
    \/ MixFilters /\ UNCHANGED <<server, gemini>>
    \/ (\E ffmpeg \in Outcomes : MixRun(ffmpeg)) /\ UNCHANGED <<server, gemini>>

SpecMix == InitMix /\ [][NextMix]_vars

\* One call of analyze_with_gemini, on a file of every size of the inputs;
\* the server is at rest.
InitGemini == ServerInit /\ mix = Idle /\ gemini \in {GeminiCalled(sz) : sz \in FileSizes}

NextGemini ==
    \/ GeminiDispatch /\ UNCHANGED <<server, mix>>
    \/ (\E reply \in GeminiReplies : GeminiInline(reply)) /\ UNCHANGED <<server, mix>>
    \/ (\E up \in Outcomes, st \in FileStates : GeminiUpload(up, st))
          /\ UNCHANGED <<server, mix>>
    \/ (\E get \in Outcomes, st \in FileStates : GeminiPoll(get, st))
          /\ UNCHANGED <<server, mix>>
    \/ GeminiReady /\ UNCHANGED <<server, mix>>
    \/ (\E reply \in GeminiReplies, del \in Outcomes : GeminiGenerate(reply, del))
          /\ UNCHANGED <<server, mix>>
    \/ GeminiParse /\ UNCHANGED <<server, mix>>

SpecGemini == InitGemini /\ [][NextGemini]_vars

\* ------------------------------------------------------------------ claims

\* The step serves one HTTP request of the given operation.
Served(op) == http'.seq = http.seq + 1 /\ http'.op = op

\* Background unit i reaches its end in this step.
Finishes(i) ==
    /\ i \in DOMAIN units'
    /\ units'[i].pc = "done"
    /\ (i \in DOMAIN units => units[i].pc # "done")

Terminal == {"completed", "failed"}

\* C1 (as claimed): once a task's status is completed or failed, no later
\* step changes any field of its record.
C1_TerminalTaskFrozen ==
    [][\A t \in DOMAIN tasks :
          tasks[t].status \in Terminal => tasks'[t] = tasks[t]]_vars

\* C2 (as claimed): an upload over MAX_FILE_SIZE creates no task, schedules
\* no background unit, and is answered 413.
C2_OversizeUploadIs413 ==
    [][(Served("analyze_video") /\ http'.size > MAX_FILE_SIZE)
          => (tasks' = tasks /\ units' = units /\ http'.code = 413)]_vars

\* C3 (as claimed): in every reachable state a completed task has a
\* final_video_url that is neither None nor empty.
C3_CompletedHasFinalUrl ==
    \A t \in DOMAIN tasks :
        tasks[t].status = "completed" => tasks[t].final_video_url \notin {None, ""}

\* No external call of a mixing unit failed: neither download, nor ffmpeg,
\* nor the upload of the result.
NoExternalFailure(log) ==
    /\ log.download # "fail"
    /\ log.get # "fail"
    /\ log.mix # "ffmpeg.Error"
    /\ log.upload # "fail"

\* C4 (as claimed): the auto-mixing stage on a task with a stored
\* video_object_name and music_url ends completed with final_video_url set,
\* and ends failed only if one of its external steps failed.
C4_AutoMixingCompletes ==
    [][\A i \in DOMAIN units' :
          (/\ Finishes(i)
           /\ units'[i].kind = "auto_mixing"
           /\ units'[i].request.video_object_name # None
           /\ units'[i].request.music_url # None
           /\ NoExternalFailure(units'[i].log))
          => (/\ tasks'[units'[i].task].status = "completed"
              /\ tasks'[units'[i].task].final_video_url # None)]_vars

\* The content analysis adapter failed: the service raised, or its reply was
\* not JSON.
AnalysisFailed(log) == log.analyze \in {"not_json", "raises"}

\* C5 (as claimed): when the analysis unit ends, a failure of downsampling,
\* of content analysis (an unparsable reply included) or of the webhook has
\* left the task failed with an error string; a transcription failure alone
\* gave an empty transcript and did not fail the task; no step of the unit
\* answers an HTTP request.
C5_AnalysisFailureFailsTask ==
    [][\A i \in DOMAIN units' :
          (Finishes(i) /\ units'[i].kind = "analysis")
          => LET u == units'[i]
                 t == u.task
                 fatal == \/ u.log.downsample = "fail"
                          \/ AnalysisFailed(u.log)
                          \/ u.log.webhook = "fail"
             IN /\ fatal => (tasks'[t].status = "failed" /\ tasks'[t].error # None)
                /\ u.log.transcribe = "fail" => u.transcript = ""
                /\ (~fatal /\ u.log.analyze # "json_array") => tasks'[t] = tasks[t]
                /\ http' = http]_vars

\* C5 (amended): when the analysis unit ends, a failure of downsampling or of
\* the webhook, or a reply that is JSON but no object, has left the task
\* failed with the error recorded; otherwise the unit left the task's record
\* as it was, also when transcription failed (the transcript is then empty)
\* and when content analysis failed (service error or unparsable reply: the
\* adapter hands back an error result and the unit goes on to the webhook).
\* No step of the unit answers an HTTP request.
C5_AnalysisStageFailures ==
    [][\A i \in DOMAIN units' :
          (i \in DOMAIN units /\ units'[i] # units[i] /\ units'[i].kind = "analysis")
          => LET u == units'[i]
                 t == u.task
                 fatal == \/ u.log.downsample = "fail"
                          \/ u.log.analyze = "json_array"
                          \/ u.log.webhook = "fail"
             IN /\ http' = http
                /\ u.log.transcribe = "fail" => u.transcript = ""
                /\ Finishes(i) =>
                     IF fatal
                     THEN /\ tasks'[t].status = "failed"
                          /\ tasks'[t].error = u.exit
                          /\ u.exit \notin {None, "ok"}
                     ELSE /\ tasks'[t] = tasks[t]
                          /\ u.exit = "ok"]_vars

\* C5 witness: an analysis unit ended with transcription and content
\* analysis both failed and the task not failed.
C5_Witness ==
    \E i \in DOMAIN units :
        /\ units[i].kind = "analysis" /\ units[i].pc = "done"
        /\ units[i].log.transcribe = "fail" /\ units[i].transcript = ""
        /\ units[i].log.analyze = "not_json"
        /\ units[i].log.webhook = "ok"
        /\ tasks[units[i].task].status = "processing"
        /\ tasks[units[i].task].error = None

\* The step is an upload that created exactly one task, under a fresh id,
\* with status processing, and returned that id.
CreatesOneTask ==
    /\ http'.code = 200
    /\ http'.task_id \notin DOMAIN tasks
    /\ DOMAIN tasks' = DOMAIN tasks \cup {http'.task_id}
    /\ \A t \in DOMAIN tasks : tasks'[t] = tasks[t]
    /\ tasks'[http'.task_id].status = "processing"
    /\ http'.body.status = "processing"
    /\ tasks'[http'.task_id].video_object_name \in r2'
    /\ Len(units') = Len(units) + 1
    /\ units'[Len(units')].task = http'.task_id

\* A status query that follows the upload's answer is answered 200 with the
\* task's record.
StatusAfterUpload ==
    (/\ http.op = "analyze_video" /\ http.code = 200
     /\ Served("get_task_status") /\ http'.task_id = http.task_id)
    => (http'.code = 200 /\ http'.body = tasks[http.task_id])

\* C6 (as claimed): every upload at or under MAX_FILE_SIZE creates exactly
\* one task, status processing, under an id not in the table before, and
\* returns it; its bytes are in object storage; a following status query
\* succeeds.
C6_UploadUnderCeilingCreatesTask ==
    [][/\ (Served("analyze_video") /\ http'.size <= MAX_FILE_SIZE) => CreatesOneTask
       /\ StatusAfterUpload]_vars

\* C6 (amended): an upload at or under MAX_FILE_SIZE whose bytes object
\* storage accepts creates exactly one task, status processing, under an id
\* not in the table before, and returns it, and a following status query
\* succeeds; when object storage refuses the bytes the upload is answered 500
\* and creates no task and no background unit.
C6_StoredUploadCreatesTask ==
    [][/\ (Served("analyze_video") /\ http'.size <= MAX_FILE_SIZE)
            => IF r2' # r2
               THEN CreatesOneTask
               ELSE http'.code = 500 /\ tasks' = tasks /\ units' = units
       /\ StatusAfterUpload]_vars

\* C6 witness: the status query right after an accepted upload returned the
\* new task, still processing.
C6_Witness ==
    /\ http.op = "get_task_status" /\ http.code = 200 /\ http.seq = 2
    /\ http.body.status = "processing"
    /\ http.body.video_object_name \in r2
    /\ \E i \in DOMAIN units : units[i].kind = "analysis" /\ units[i].task = http.task_id

C8_UnknownTaskIs404 ==
    [][(/\ Served("get_task_status") \/ Served("receive_music")
        /\ http'.task_id \notin DOMAIN tasks)
       => (http'.code = 404 /\ tasks' = tasks /\ units' = units)]_vars

\* C8 witness: a music callback with an empty list for an unknown id was
\* answered 404 while the table held a task.
C8_Witness ==
    /\ http.op = "receive_music" /\ http.code = 404
    /\ http.music_list = << >>
    /\ http.task_id \notin DOMAIN tasks
    /\ DOMAIN tasks # {}

\* C9: a music callback for a known task with an empty list is answered 400
\* and leaves the task's record, and the whole table, as it was.
C9_EmptyListIs400 ==
    [][(/\ Served("receive_music")
        /\ http'.task_id \in DOMAIN tasks
        /\ http'.music_list = << >>)
       => (http'.code = 400 /\ tasks' = tasks /\ units' = units)]_vars

\* C9 witness: an empty-list callback for a known task was answered 400.
C9_Witness ==
    /\ http.op = "receive_music" /\ http.code = 400
    /\ http.music_list = << >>
    /\ http.task_id \in DOMAIN tasks
    /\ tasks[http.task_id].status = "processing"
    /\ tasks[http.task_id].music_list = NoList

Rank(status) ==
    CASE status = "processing" -> 1
      [] status = "music_ready" -> 2
      [] status = "mixing" -> 3
      [] status = "completed" -> 4
      [] status = "failed" -> 5

\* C10 (as claimed): a task's status only moves forward in the order
\* processing, music_ready, mixing, completed, or to failed from a status
\* that is not terminal; no step moves it to an earlier status.
C10_StatusMovesForward ==
    [][\A t \in DOMAIN tasks :
          tasks'[t].status # tasks[t].status
          => (/\ tasks[t].status \notin Terminal
              /\ Rank(tasks'[t].status) > Rank(tasks[t].status))]_vars

\* Every external call of a finalization unit returned successfully.
AllCallsOk(log) ==
    /\ log.download = "ok" /\ log.get = "ok" /\ log.mix = "ok"
    /\ log.upload = "ok" /\ log.sign = "ok"

\* C11: a finalize request creates its task with status mixing; given that
\* every external call of a background unit returns, every finalization unit
\* that was started eventually ends; it ends with its task completed or
\* failed, and completed with a non-empty final_video_url when every
\* external call succeeded.
C11_FinalizeReachesTerminal ==
    /\ [][Served("finalize_video")
            => (/\ http'.task_id \notin DOMAIN tasks
                /\ tasks'[http'.task_id].status = "mixing"
                /\ units'[Len(units')].task = http'.task_id
                /\ units'[Len(units')].kind = "finalization")]_vars
    /\ [][\A i \in DOMAIN units' :
            (Finishes(i) /\ units'[i].kind = "finalization")
            => LET t == units'[i].task
               IN /\ tasks'[t].status \in Terminal
                  /\ AllCallsOk(units'[i].log)
                       => (/\ tasks'[t].status = "completed"
                           /\ tasks'[t].final_video_url \notin {None, ""})]_vars
    /\ []<>(\A i \in DOMAIN units :
              units[i].kind = "finalization" => units[i].pc = "done")

C11_Witness ==
    \E i \in DOMAIN units :
        /\ units[i].kind = "finalization" /\ units[i].pc = "done"
        /\ AllCallsOk(units[i].log)
        /\ tasks[units[i].task].status = "completed"
        /\ tasks[units[i].task].final_video_url \notin {None, ""}

Max(a, b) == IF a >= b THEN a ELSE b

\* The call has computed the start of the fade-out.
FadeComputed == mix.pc \in {"probed", "built", "returned"}

\* C12: for every video duration d >= 0 the fade-out start computed by
\* mix_audio_video is max(0, d - 5) seconds: 0 for d = 3, 25 for d = 30,
\* and never negative.
C12_FadeOutStart ==
    FadeComputed
    => /\ mix.fade_out_start = Max(0, mix.duration - Millis(5))
       /\ mix.fade_out_start >= 0
       /\ mix.duration = Millis(3) => mix.fade_out_start = 0
       /\ mix.duration = Millis(30) => mix.fade_out_start = Millis(25)

\* C12 witness: a mix of a three-second video has returned, its fade-out
\* starting at zero.
C12_Witness ==
    /\ mix.pc = "returned"
    /\ mix.duration = Millis(3)
    /\ mix.fade_out_start = 0

\* The local temporary files of analysis unit u: the saved upload, the
\* downsampled copy and optimize_video's copy.
AnalysisTemps(u) == {FilePath(u), DownsampledPath(u), OptimizedPath(u)}

\* C13: when an analysis unit ends, on any exit path, none of its local
\* temporary files is left: not the saved upload, not the downsampled copy,
\* not the optimized copy.
C13_AnalysisTempsRemoved ==
    [][\A i \in DOMAIN units' :
          (Finishes(i) /\ units'[i].kind = "analysis")
          => AnalysisTemps(units'[i]) \cap tmp' = {}]_vars

\* The outcomes the claim lists: the remote file became ready and the
\* analysis succeeded or raised, or the remote file's state became FAILED.
ListedOutcomes == {"ok", "parse_raised", "generate_raised", "state_failed"}

\* C14: on the large-file path, when analyze_with_gemini has returned, the
\* file it uploaded to the remote service has been deleted there, whether
\* the analysis succeeded, the analysis raised, or the remote state was
\* FAILED.
C14_RemoteFileDeleted ==
    (/\ gemini.pc = "returned"
     /\ gemini.uploaded
     /\ gemini.exit \in ListedOutcomes)
    => gemini.remote = {}

UploadCreated == {units[i].task : i \in {j \in DOMAIN units : units[j].kind = "analysis"}}

UnitSteps(i) == i \in DOMAIN units /\ units'[i] # units[i]

\* C17: a step of a background unit, its failure handling included, and a
\* music callback leave the record of every task but their own unchanged;
\* no step removes a task from the table or changes a task's
\* video_object_name.
C17_OtherTasksUntouched ==
    /\ [][\A i \in DOMAIN units :
            UnitSteps(i)
            => \A t \in DOMAIN tasks \ {units[i].task} : tasks'[t] = tasks[t]]_vars
    /\ [][Served("receive_music")
            => \A t \in DOMAIN tasks \ {http'.task_id} : tasks'[t] = tasks[t]]_vars
    /\ [][\A t \in DOMAIN tasks :
            /\ t \in DOMAIN tasks'
            /\ tasks'[t].video_object_name = tasks[t].video_object_name]_vars

\* C17 witness: a unit has failed its task while another task, not failed,
\* is in the table.
C17_Witness ==
    \E i \in DOMAIN units, t \in DOMAIN tasks :
        /\ units[i].pc = "done"
        /\ units[i].exit \notin {None, "ok"}
        /\ tasks[units[i].task].status = "failed"
        /\ t # units[i].task
        /\ tasks[t].status # "failed"

====
